---- MODULE Spec2Model ----
(***************************************************************************)
(* A model of replace_atoms.py: the GRO reader (read_gro), the selection,  *)
(* sampling, relabelling and reordering of replace_atom, and the lazy      *)
(* renumbering generator (renumber).                                       *)
(*                                                                         *)
(* Python lists are sequences; Python indices are kept 0-based, so the     *)
(* atom with index i is atomlist[i + 1].  An atom is a record with the     *)
(* seven keys of GRO_FIELDS.  A float is held as the exact decimal         *)
(* [num, den] with den a power of ten and no trailing zero digit.          *)
(***************************************************************************)
EXTENDS Integers, Sequences, FiniteSets, TLC

(***************************************************************************)
(* Bounds of the model.                                                    *)
(***************************************************************************)
\* longest atom list handed to replace_atom
MaxAtoms == 4
\* largest length handed to reorder on its own
MaxLength == 5
\* longest input handed to read_gro, in lines
MaxLines == 6
\* how far past the wrap-around the renumbered stream is followed
MaxBeyond == 2
\* how many atoms of the renumbered stream may continue the residue of the
\* atom before them
MaxSame == 1

(***************************************************************************)
(* Program constants.                                                      *)
(***************************************************************************)
\* resid % 100000, atomid % 100000
Modulus == 100000

(***************************************************************************)
(* Input domains.                                                          *)
(***************************************************************************)
\* original residue numbers of the atoms given to replace_atom
ResidValues == {0, 1}
\* original residue numbers of the atoms streamed through renumber
OrigResids == {0, 1, 2}
\* (resname, atom_name) of the atoms given to replace_atom
NamePairs == {<<"SOL", "OW">>, <<"ION", "NA">>, <<"ION", "OW">>}
\* (key, value) selection criteria: cli_main selects on 'resname'
Criteria == {<<"resname", "SOL">>}
\* (resname, atom_name) written by alter_atoms
NewNames == {<<"ION", "NA">>}

VARIABLES
    \* ---- replace_atom and the consumption of its result (cli_main) ----
    input_atoms,     \* the atom list as it was handed to replace_atom
    atoms,           \* the atom list (the dictionaries are mutated in place)
    key,             \* replace_atom's key
    oresname,        \* replace_atom's value (args.oresname)
    nresname,        \* replace_atom's resname (args.nresname)
    natname,         \* replace_atom's atom_name (args.natname)
    natoms,          \* replace_atom's nsub (args.natoms)
    candidates,      \* list(select(atoms, key, value))
    selection,       \* random.sample(candidates, nsub)
    new_order,       \* the indices reorder yields, in order
    modified_atoms,  \* the atoms renumber has yielded so far
    pc,              \* position in replace_atom / list(...)
    error,           \* the exception raised, and where
    \* ---- the frame of the renumber generator ----
    rn,              \* [resid, prev_resid, atomid]
    \* ---- renumber over an atom stream ----
    stream,          \* what the stream has fed and renumber has yielded
    \* ---- reorder on its own ----
    ro,              \* [length, insertions, index, out, pc]
    \* ---- read_gro ----
    lines,           \* the input lines
    pos,             \* the number of lines the iterator has handed out
    title,
    gro_atoms,       \* read_gro's atoms
    prev_line,
    box,
    rd_pc,           \* position in read_gro
    rd_error         \* the exception read_gro raised

replaceVars == <<input_atoms, atoms, key, oresname, nresname, natname, natoms,
                 candidates, selection, new_order, modified_atoms, pc, error>>
readVars == <<lines, pos, title, gro_atoms, prev_line, box, rd_pc, rd_error>>
vars == <<replaceVars, rn, stream, ro, readVars>>

(***************************************************************************)
(* Python helpers.                                                         *)
(***************************************************************************)
\* xrange(a, b) as a list
xrange(a, b) == [p \in 1..(IF b > a THEN b - a ELSE 0) |-> a + p - 1]

\* v in seq
contains(seq, v) == \E p \in DOMAIN seq : seq[p] = v

\* the value None
None == "None"

\* the float with numerator n over denominator 1
Float(n) == [num |-> n, den |-> 1]

(***************************************************************************)
(* select: the indices, ascending, of the atoms whose key has the value.   *)
(***************************************************************************)
select(atomlist, k, v) ==
    SelectSeq(xrange(0, Len(atomlist)), LAMBDA i : atomlist[i + 1][k] = v)

(***************************************************************************)
(* random.sample(population, k): the set of results it can give.  It       *)
(* raises ValueError when k is negative or larger than the population, and *)
(* otherwise returns k distinct elements in any order.                     *)
(***************************************************************************)
sample_clamped(population, k) ==
    LET kk == IF k < 0 THEN 0 ELSE IF k > Len(population) THEN Len(population) ELSE k
    IN  { [ok |-> TRUE, value |-> [p \in 1..kk |-> population[f[p]]], error |-> None] :
            f \in { g \in [1..kk -> DOMAIN population] :
                      \A p, q \in 1..kk : p # q => g[p] # g[q] } }

sample(population, k) ==
    IF k < 0 \/ k > Len(population)
    THEN { [ok |-> FALSE, value |-> <<>>, error |-> "ValueError"] }
    ELSE { [ok |-> TRUE, value |-> [p \in 1..k |-> population[f[p]]], error |-> None] :
             f \in { g \in [1..k -> DOMAIN population] :
                       \A p, q \in 1..k : p # q => g[p] # g[q] } }

(***************************************************************************)
(* alter_atoms: overwrite resname and atom_name of the atoms at indices.   *)
(***************************************************************************)
alter_atoms_resname_only(atomlist, indices, rname, aname) ==
    [p \in DOMAIN atomlist |->
        IF contains(indices, p - 1)
        THEN [atomlist[p] EXCEPT !.resname = rname]
        ELSE atomlist[p]]

alter_atoms(atomlist, indices, rname, aname) ==
    [p \in DOMAIN atomlist |->
        IF contains(indices, p - 1)
        THEN [atomlist[p] EXCEPT !.resname = rname, !.atom_name = aname]
        ELSE atomlist[p]]

(***************************************************************************)
(* reorder: the indices below index that are not inserted, the insertions  *)
(* in the order given, the indices from index on that are not inserted.    *)
(***************************************************************************)
reorder_sorted(length, insertions, index) ==
    SelectSeq(xrange(0, index), LAMBDA i : ~contains(insertions, i))
    \o SelectSeq(xrange(0, length), LAMBDA i : contains(insertions, i))
    \o SelectSeq(xrange(index, length), LAMBDA i : ~contains(insertions, i))

reorder_skip_index(length, insertions, index) ==
    SelectSeq(xrange(0, index), LAMBDA i : ~contains(insertions, i))
    \o insertions
    \o SelectSeq(xrange(index + 1, length), LAMBDA i : ~contains(insertions, i))

reorder(length, insertions, index) ==
    SelectSeq(xrange(0, index), LAMBDA i : ~contains(insertions, i))
    \o insertions
    \o SelectSeq(xrange(index, length), LAMBDA i : ~contains(insertions, i))

(***************************************************************************)
(* min(candidates): ValueError on an empty list.                           *)
(***************************************************************************)
min_or_zero(seq) ==
    IF Len(seq) = 0
    THEN [ok |-> TRUE, value |-> 0, error |-> None]
    ELSE [ok |-> TRUE, error |-> None,
          value |-> CHOOSE v \in {seq[p] : p \in DOMAIN seq} :
                        \A p \in DOMAIN seq : v <= seq[p]]

max_of(seq) ==
    IF Len(seq) = 0
    THEN [ok |-> FALSE, value |-> 0, error |-> "ValueError"]
    ELSE [ok |-> TRUE, error |-> None,
          value |-> CHOOSE v \in {seq[p] : p \in DOMAIN seq} :
                        \A p \in DOMAIN seq : v >= seq[p]]

min(seq) ==
    IF Len(seq) = 0
    THEN [ok |-> FALSE, value |-> 0, error |-> "ValueError"]
    ELSE [ok |-> TRUE, error |-> None,
          value |-> CHOOSE v \in {seq[p] : p \in DOMAIN seq} :
                        \A p \in DOMAIN seq : v <= seq[p]]

(***************************************************************************)
(* renumber: one turn of its loop.  frame is [resid, prev_resid, atomid]   *)
(* (atomid is enumerate's counter, starting at 1); the result is the frame *)
(* after the turn and the atom as it is yielded.                           *)
(***************************************************************************)
renumber_frame == [resid |-> 0, prev_resid |-> 0, atomid |-> 1]

renumber_next_keep_prev(frame, atom) ==
    LET differs == atom.resid # frame.prev_resid
        r == IF differs THEN frame.resid + 1 ELSE frame.resid
    IN  [frame |-> [resid |-> r, prev_resid |-> frame.prev_resid,
                    atomid |-> frame.atomid + 1],
         atom |-> [atom EXCEPT !.resid = r % Modulus,
                               !.atomid = frame.atomid % Modulus]]

renumber_next(frame, atom) ==
    LET differs == atom.resid # frame.prev_resid
        r == IF differs THEN frame.resid + 1 ELSE frame.resid
        p == IF differs THEN atom.resid ELSE frame.prev_resid
    IN  [frame |-> [resid |-> r, prev_resid |-> p, atomid |-> frame.atomid + 1],
         atom |-> [atom EXCEPT !.resid = r % Modulus,
                               !.atomid = frame.atomid % Modulus]]

(***************************************************************************)
(* replace_atom, and list(...) consuming the generator it returns.         *)
(***************************************************************************)
\* the atom lists of length n: atom i carries its index as atomid, and
\* coordinates no other atom has
AtomLists(n) ==
    { [p \in 1..n |-> [resid |-> c[p][1], resname |-> c[p][2][1],
                       atom_name |-> c[p][2][2], atomid |-> p,
                       x |-> Float(p), y |-> Float(10 + p), z |-> Float(0)]] :
        c \in [1..n -> ResidValues \X NamePairs] }

idleReplace ==
    /\ input_atoms = <<>> /\ atoms = <<>> /\ key = None /\ oresname = None
    /\ nresname = None /\ natname = None /\ natoms = 0 /\ candidates = <<>>
    /\ selection = <<>> /\ new_order = <<>> /\ modified_atoms = <<>>
    /\ pc = "idle" /\ error = None

idleStream == stream = [n |-> 0, same |-> 0, runs |-> 0, in |-> <<>>, out |-> <<>>]

idleReorder == ro = [length |-> 0, insertions |-> <<>>, index |-> 0, out |-> <<>>,
                     pc |-> "idle"]

idleRead ==
    /\ lines = <<>> /\ pos = 0 /\ title = None /\ gro_atoms = <<>>
    /\ prev_line = None /\ box = None /\ rd_pc = "idle" /\ rd_error = None

Init ==
    /\ \E n \in 0..MaxAtoms : atoms \in AtomLists(n)
    /\ input_atoms = atoms
    /\ \E c \in Criteria : key = c[1] /\ oresname = c[2]
    /\ \E c \in NewNames : nresname = c[1] /\ natname = c[2]
    /\ natoms \in -1..(Len(atoms) + 1)
    /\ candidates = <<>> /\ selection = <<>> /\ new_order = <<>>
    /\ modified_atoms = <<>>
    /\ pc = "select" /\ error = None
    /\ rn = renumber_frame
    /\ idleStream /\ idleReorder /\ idleRead

\* candidates = list(select(atoms, key, value))
Select ==
    /\ pc = "select"
    /\ candidates' = select(atoms, key, oresname)
    /\ pc' = "sample"
    /\ UNCHANGED <<input_atoms, atoms, key, oresname, nresname, natname, natoms,
                   selection, new_order, modified_atoms, error, rn, stream, ro,
                   readVars>>

\* selection = random.sample(candidates, nsub)
Sample ==
    /\ pc = "sample"
    /\ \E s \in sample(candidates, natoms) :
         IF s.ok
         THEN selection' = s.value /\ pc' = "alter" /\ error' = error
         ELSE selection' = selection /\ pc' = "raised"
              /\ error' = <<s.error, "random.sample">>
    /\ UNCHANGED <<input_atoms, atoms, key, oresname, nresname, natname, natoms,
                   candidates, new_order, modified_atoms, rn, stream, ro, readVars>>

\* alter_atoms(atoms, selection, resname, atom_name)
Alter ==
    /\ pc = "alter"
    /\ atoms' = alter_atoms(atoms, selection, nresname, natname)
    /\ pc' = "reorder"
    /\ UNCHANGED <<input_atoms, key, oresname, nresname, natname, natoms,
                   candidates, selection, new_order, modified_atoms, error, rn,
                   stream, ro, readVars>>

\* new_order = reorder(len(atoms), selection, min(candidates));
\* return renumber(iter_order(atoms, new_order))
Reorder ==
    /\ pc = "reorder"
    /\ LET m == min(candidates)
       IN  IF m.ok
           THEN /\ new_order' = reorder(Len(atoms), selection, m.value)
                /\ pc' = "renumber" /\ error' = error
           ELSE /\ new_order' = new_order
                /\ pc' = "raised" /\ error' = <<m.error, "min">>
    /\ rn' = renumber_frame
    /\ UNCHANGED <<input_atoms, atoms, key, oresname, nresname, natname, natoms,
                   candidates, selection, modified_atoms, stream, ro, readVars>>

\* one next() on renumber(iter_order(atoms, new_order))
RenumberNext ==
    /\ pc = "renumber"
    /\ rn.atomid <= Len(new_order)
    /\ LET i == new_order[rn.atomid]
           nx == renumber_next(rn, atoms[i + 1])
       IN  /\ rn' = nx.frame
           /\ atoms' = [atoms EXCEPT ![i + 1] = nx.atom]
           /\ modified_atoms' = Append(modified_atoms, nx.atom)
    /\ UNCHANGED <<input_atoms, key, oresname, nresname, natname, natoms,
                   candidates, selection, new_order, pc, error, stream, ro,
                   readVars>>

\* the generator is exhausted: list(...) returns
RenumberStop ==
    /\ pc = "renumber"
    /\ rn.atomid > Len(new_order)
    /\ pc' = "done"
    /\ UNCHANGED <<input_atoms, atoms, key, oresname, nresname, natname, natoms,
                   candidates, selection, new_order, modified_atoms, error, rn,
                   stream, ro, readVars>>

Next == Select \/ Sample \/ Alter \/ Reorder \/ RenumberNext \/ RenumberStop

Spec == Init /\ [][Next]_vars

(***************************************************************************)
(* What the claims about replace_atom speak of, read off the input and the *)
(* output alone.                                                           *)
(***************************************************************************)
\* the indices of the atoms of the input that match the criterion
Matching == { i \in 0..(Len(input_atoms) - 1) : input_atoms[i + 1][key] = oresname }

\* the indices the sampler returned
Sampled == { selection[p] : p \in DOMAIN selection }

\* the candidates the sampler left out
Unsampled == Matching \ Sampled

\* the smallest candidate index
Anchor == CHOOSE i \in Matching : \A j \in Matching : i <= j

\* the index, in the input, of the atom at position p (from 1) of the output:
\* an atom is known by its coordinates
Origin(p) ==
    CHOOSE i \in 0..(Len(input_atoms) - 1) :
        /\ input_atoms[i + 1].x = modified_atoms[p].x
        /\ input_atoms[i + 1].y = modified_atoms[p].y
        /\ input_atoms[i + 1].z = modified_atoms[p].z

\* the positions of the output
Positions == DOMAIN modified_atoms

\* the atom carries the new resname and atom_name
Relabelled(atom) == atom.resname = nresname /\ atom.atom_name = natname

(***************************************************************************)
(* C2 as stated: in the order replace_atom produces, every candidate that  *)
(* was not sampled comes before every sampled atom, and the sampled atoms  *)
(* come directly after the last unsampled candidate.                       *)
(***************************************************************************)
C2_SampledAfterBlock ==
    pc = "done" =>
        /\ \A p, q \in Positions :
             (Origin(p) \in Unsampled /\ Origin(q) \in Sampled) => p < q
        /\ (Unsampled # {} /\ Sampled # {}) =>
             LET last == CHOOSE p \in Positions :
                            /\ Origin(p) \in Unsampled
                            /\ \A q \in Positions : Origin(q) \in Unsampled => q <= p
             IN  { p \in Positions : Origin(p) \in Sampled }
                    = (last + 1)..(last + Len(selection))

(***************************************************************************)
(* C2 amended: the sampled atoms are moved to where the block of matched   *)
(* candidates starts: every sampled atom comes before every candidate that *)
(* was not sampled, and the sampled atoms form one block that comes        *)
(* directly after the atoms that preceded the first candidate.             *)
(***************************************************************************)
C2_SampledAtBlockStart ==
    pc = "done" =>
        /\ \A p, q \in Positions :
             (Origin(p) \in Sampled /\ Origin(q) \in Unsampled) => p < q
        /\ { p \in Positions : Origin(p) \in Sampled }
              = (Anchor + 1)..(Anchor + Len(selection))
        /\ { Origin(p) : p \in 1..Anchor } = 0..(Anchor - 1)

C2_Witness ==
    /\ pc = "done"
    /\ Sampled # {} /\ Unsampled # {}
    /\ Anchor >= 1
    /\ \E i \in Unsampled, j \in Sampled : i < j

(***************************************************************************)
(* C5: with c >= 1 matching atoms, a count equal to c succeeds and every   *)
(* candidate is relabelled; a count greater than c fails in the sampler    *)
(* with ValueError and no atom is ever yielded.                            *)
(***************************************************************************)
C5_CountBoundary ==
    LET c == Cardinality(Matching)
    IN  /\ (c >= 1 /\ natoms = c) =>
              /\ pc # "raised"
              /\ pc \in {"reorder", "renumber", "done"} =>
                    \A i \in Matching : Relabelled(atoms[i + 1])
              /\ pc = "done" =>
                    \A p \in Positions :
                        Origin(p) \in Matching => Relabelled(modified_atoms[p])
        /\ (c >= 1 /\ natoms > c) =>
              /\ pc \in {"select", "sample", "raised"}
              /\ pc = "raised" => error = <<"ValueError", "random.sample">>
              /\ modified_atoms = <<>>

C5_Witness ==
    /\ pc = "done"
    /\ Cardinality(Matching) >= 2
    /\ natoms = Cardinality(Matching)
    /\ Cardinality(Matching) < Len(input_atoms)
    /\ selection[1] > selection[2]

(***************************************************************************)
(* C8: the anchor (the smallest candidate index) is the insertion point:   *)
(* with n sampled atoms, output positions anchor..anchor+n-1 (from 0) hold *)
(* the sampled atoms in the sampler's order, every atom before the anchor  *)
(* keeps its position, the atoms not sampled keep their relative order,    *)
(* and with an empty sample the order is the identity.                     *)
(***************************************************************************)
C8_AnchorIsInsertionPoint ==
    pc = "done" =>
        /\ Len(selection) = natoms
        /\ \A k \in 1..Len(selection) : Origin(Anchor + k) = selection[k]
        /\ \A i \in 0..(Anchor - 1) : Origin(i + 1) = i
        /\ \A p, q \in Positions :
             (p < q /\ Origin(p) \notin Sampled /\ Origin(q) \notin Sampled)
                => Origin(p) < Origin(q)
        /\ selection = <<>> => \A p \in Positions : Origin(p) = p - 1

C8_Witness ==
    /\ pc = "done"
    /\ Len(selection) = 2 /\ selection[1] > selection[2]
    /\ Anchor >= 1
    /\ Unsampled # {}
    /\ Anchor \notin Sampled

(***************************************************************************)
(* C9: after a successful replace_atom with count n on a list in which no  *)
(* atom carries the new (resname, atom_name), the consumed output holds    *)
(* every input atom exactly once, exactly n atoms carry the new names and  *)
(* all of them were candidates, every other atom keeps its names, and      *)
(* every atom keeps x, y, z.                                               *)
(***************************************************************************)
C9_FrameOfReplaceAtom ==
    (pc = "done" /\ \A i \in DOMAIN input_atoms : ~Relabelled(input_atoms[i])) =>
        /\ Len(modified_atoms) = Len(input_atoms)
        /\ \A i \in DOMAIN input_atoms :
             Cardinality({ p \in Positions :
                             /\ modified_atoms[p].x = input_atoms[i].x
                             /\ modified_atoms[p].y = input_atoms[i].y
                             /\ modified_atoms[p].z = input_atoms[i].z }) = 1
        /\ Cardinality({ p \in Positions : Relabelled(modified_atoms[p]) }) = natoms
        /\ \A p \in Positions :
             IF Relabelled(modified_atoms[p])
             THEN Origin(p) \in Matching
             ELSE /\ modified_atoms[p].resname = input_atoms[Origin(p) + 1].resname
                  /\ modified_atoms[p].atom_name = input_atoms[Origin(p) + 1].atom_name
        /\ \A p \in DOMAIN atoms :
             /\ atoms[p].x = input_atoms[p].x
             /\ atoms[p].y = input_atoms[p].y
             /\ atoms[p].z = input_atoms[p].z

C9_Witness ==
    /\ pc = "done"
    /\ \A i \in DOMAIN input_atoms : ~Relabelled(input_atoms[i])
    /\ natoms = 2
    /\ Cardinality(Matching) = 3
    /\ Len(input_atoms) = 4
    /\ \E p \in Positions : modified_atoms[p].resid # input_atoms[Origin(p) + 1].resid

(***************************************************************************)
(* C10: replace_atom fails whenever no atom matches, for every count, 0    *)
(* included; and whenever replace_atom fails, the atom list and all its    *)
(* records are as they were before the call.                               *)
(***************************************************************************)
C10_FailsOnNoMatchAndLeavesAtoms ==
    /\ Matching = {} =>
          /\ pc \in {"select", "sample", "alter", "reorder", "raised"}
          /\ pc = "raised" => error[1] = "ValueError"
    /\ pc = "raised" =>
          /\ atoms = input_atoms
          /\ modified_atoms = <<>>
          /\ (Matching = {} \/ natoms > Cardinality(Matching) \/ natoms < 0)

C10_Witness ==
    /\ pc = "raised"
    /\ Matching = {}
    /\ natoms = 0
    /\ Len(input_atoms) >= 2
    /\ error = <<"ValueError", "min">>

(***************************************************************************)
(* reorder on its own: any length, any list of distinct indices, any index *)
(* from 0 to the length.                                                   *)
(***************************************************************************)
\* the lists of distinct elements of the set S
DistinctLists(S) ==
    UNION { { f \in [1..k -> S] : \A p, q \in 1..k : p # q => f[p] # f[q] } :
              k \in 0..Cardinality(S) }

InitReorder ==
    /\ \E n \in 0..MaxLength :
         \E ins \in DistinctLists(0..(n - 1)) :
           \E idx \in 0..n :
             ro = [length |-> n, insertions |-> ins, index |-> idx, out |-> <<>>,
                   pc |-> "call"]
    /\ idleReplace /\ rn = renumber_frame /\ idleStream /\ idleRead

\* list(reorder(length, insertions, index))
ReorderCall ==
    /\ ro.pc = "call"
    /\ ro' = [ro EXCEPT !.out = reorder(ro.length, ro.insertions, ro.index),
                        !.pc = "done"]
    /\ UNCHANGED <<replaceVars, rn, stream, readVars>>

NextReorder == ReorderCall

SpecReorder == InitReorder /\ [][NextReorder]_vars

(***************************************************************************)
(* C1: for every length n, every list of distinct indices of 0..n-1 and    *)
(* every anchor in 0..n, what reorder yields is a permutation of 0..n-1:   *)
(* n elements, every index exactly once.                                   *)
(***************************************************************************)
C1_ReorderIsPermutation ==
    ro.pc = "done" =>
        /\ Len(ro.out) = ro.length
        /\ \A i \in 0..(ro.length - 1) :
             Cardinality({ p \in DOMAIN ro.out : ro.out[p] = i }) = 1

C1_Witness ==
    /\ ro.pc = "done"
    /\ ro.length = 4
    /\ ro.index = 2
    /\ ro.insertions = <<3, 0>>
    /\ ro.out = <<1, 3, 0, 2>>

(***************************************************************************)
(* renumber over a stream of atoms: each step feeds the generator one more *)
(* atom, whose original resid is any of OrigResids, and takes what it      *)
(* yields.  stream keeps the number of atoms fed (n), how many of them     *)
(* continued the residue of the atom before (same), the number of runs of  *)
(* equal original resid fed so far (runs), and the original resid (in) and *)
(* the yielded atom (out) of the last two atoms.                           *)
(***************************************************************************)
\* the last element of a sequence, as a sequence of at most one element
LastOf(seq) == IF Len(seq) = 0 THEN <<>> ELSE <<seq[Len(seq)]>>

InitRenumber ==
    /\ rn = renumber_frame
    /\ idleStream
    /\ idleReplace /\ idleReorder /\ idleRead

StreamNext ==
    /\ stream.n < Modulus + MaxBeyond
    /\ \E r \in OrigResids :
         LET atom == [resid |-> r, resname |-> "SOL", atom_name |-> "OW",
                      atomid |-> 0, x |-> Float(0), y |-> Float(0), z |-> Float(0)]
             continues == Len(stream.in) > 0 /\ stream.in[Len(stream.in)] = r
             nx == renumber_next(rn, atom)
         IN  /\ continues => stream.same < MaxSame
             /\ rn' = nx.frame
             /\ stream' = [n |-> stream.n + 1,
                           same |-> IF continues THEN stream.same + 1 ELSE stream.same,
                           runs |-> IF continues THEN stream.runs ELSE stream.runs + 1,
                           in |-> LastOf(stream.in) \o <<r>>,
                           out |-> LastOf(stream.out) \o <<nx.atom>>]
    /\ UNCHANGED <<replaceVars, ro, readVars>>

NextRenumber == StreamNext

SpecRenumber == InitRenumber /\ [][NextRenumber]_vars

(***************************************************************************)
(* C3: two adjacent yielded atoms have different resid exactly when their  *)
(* original resid differed, and the yielded resid never decreases except   *)
(* where the running counter wraps modulo 100000.                          *)
(***************************************************************************)
C3_ResidBoundariesAndMonotone ==
    Len(stream.in) = 2 =>
        /\ (stream.out[2].resid # stream.out[1].resid) <=> (stream.in[2] # stream.in[1])
        /\ stream.out[2].resid < stream.out[1].resid =>
              /\ rn.resid % Modulus = 0
              /\ stream.out[1].resid = Modulus - 1
              /\ stream.out[2].resid = 0

C3_Witness ==
    /\ Len(stream.in) = 2
    /\ stream.in[1] # stream.in[2]
    /\ stream.out[1].resid = Modulus - 1
    /\ stream.out[2].resid = 0
    /\ stream.same = 1

(***************************************************************************)
(* C4: the identifiers renumber writes do not depend on the original       *)
(* numbering: the k-th atom gets atomid k mod 100000, the first atom gets  *)
(* resid 1, and the atoms of the j-th run of equal original resid get      *)
(* resid j mod 100000, whatever the original resid values (0 included).    *)
(***************************************************************************)
C4_IndependentOfOriginalNumbering ==
    Len(stream.out) >= 1 =>
        LET atom == stream.out[Len(stream.out)]
        IN  /\ atom.atomid = stream.n % Modulus
            /\ atom.resid = stream.runs % Modulus
            /\ stream.n = 1 => atom.resid = 1

(***************************************************************************)
(* read_gro.  A line is a tuple of one-character strings, so that it can   *)
(* be sliced by column; the text of a str field is such a tuple too.       *)
(***************************************************************************)
\* GRO_FIELDS: first (included) and last (excluded) column, and the type
GRO_FIELDS ==
    [resid     |-> <<0, 5, "int">>,
     resname   |-> <<5, 10, "str">>,
     atom_name |-> <<10, 15, "str">>,
     atomid    |-> <<15, 20, "int">>,
     x         |-> <<20, 28, "float">>,
     y         |-> <<28, 36, "float">>,
     z         |-> <<36, 44, "float">>]

Whitespace == {" ", "\n", "\t", "\r"}
Digits == {"0", "1", "2", "3", "4", "5", "6", "7", "8", "9"}

\* text[begin:end]
slice(text, begin, end) ==
    SubSeq(text, begin + 1, IF end < Len(text) THEN end ELSE Len(text))

\* text.strip(): the characters str.strip() removes that a line can hold
RECURSIVE lstrip(_)
lstrip(text) ==
    IF text # <<>> /\ text[1] \in Whitespace THEN lstrip(Tail(text)) ELSE text

RECURSIVE rstrip(_)
rstrip(text) ==
    IF text # <<>> /\ text[Len(text)] \in Whitespace
    THEN rstrip(SubSeq(text, 1, Len(text) - 1))
    ELSE text

strip(text) == rstrip(lstrip(text))

DigitValue(c) ==
    CASE c = "0" -> 0 [] c = "1" -> 1 [] c = "2" -> 2 [] c = "3" -> 3 [] c = "4" -> 4
      [] c = "5" -> 5 [] c = "6" -> 6 [] c = "7" -> 7 [] c = "8" -> 8 [] c = "9" -> 9

\* the number a run of digits writes
RECURSIVE DigitsValue(_)
DigitsValue(text) ==
    IF text = <<>> THEN 0
    ELSE 10 * DigitsValue(SubSeq(text, 1, Len(text) - 1)) + DigitValue(text[Len(text)])

Unsigned(text) == IF text # <<>> /\ text[1] \in {"+", "-"} THEN Tail(text) ELSE text
Sign(text) == IF text # <<>> /\ text[1] = "-" THEN -1 ELSE 1

\* int(text): an optional sign and at least one digit, nothing else
int(text) ==
    LET body == Unsigned(text)
    IN  IF body # <<>> /\ \A p \in DOMAIN body : body[p] \in Digits
        THEN [ok |-> TRUE, value |-> Sign(text) * DigitsValue(body)]
        ELSE [ok |-> FALSE, value |-> None]

\* the decimal num / den without trailing zero digits
RECURSIVE Decimal(_, _)
Decimal(num, den) ==
    IF den > 1 /\ num % 10 = 0 THEN Decimal(num \div 10, den \div 10)
    ELSE [num |-> num, den |-> den]

RECURSIVE PowerOfTen(_)
PowerOfTen(k) == IF k = 0 THEN 1 ELSE 10 * PowerOfTen(k - 1)

\* float(text), for decimal notation (no line of LineSet writes an exponent,
\* inf or nan): an optional sign, digits with at most one point among them,
\* at least one digit
float(text) ==
    LET body == Unsigned(text)
        points == { p \in DOMAIN body : body[p] = "." }
        point == IF points = {} THEN Len(body) + 1 ELSE CHOOSE p \in points : TRUE
        whole == SubSeq(body, 1, point - 1)
        frac == SubSeq(body, point + 1, Len(body))
    IN  IF /\ Cardinality(points) <= 1
           /\ Len(whole) + Len(frac) >= 1
           /\ \A p \in DOMAIN whole : whole[p] \in Digits
           /\ \A p \in DOMAIN frac : frac[p] \in Digits
        THEN [ok |-> TRUE,
              value |-> Decimal(Sign(text) * DigitsValue(whole \o frac),
                                PowerOfTen(Len(frac)))]
        ELSE [ok |-> FALSE, value |-> None]

\* convert(prev_line[begin:end].strip()) for one key of GRO_FIELDS
convert(line, field) ==
    LET text == strip(slice(line, GRO_FIELDS[field][1], GRO_FIELDS[field][2]))
        type == GRO_FIELDS[field][3]
    IN  CASE type = "int" -> int(text)
          [] type = "float" -> float(text)
          [] type = "str" -> [ok |-> TRUE, value |-> text]

\* the dictionary built from an atom line, or ValueError
decode(line) ==
    IF \A f \in DOMAIN GRO_FIELDS : convert(line, f).ok
    THEN [ok |-> TRUE,
          atom |-> [f \in DOMAIN GRO_FIELDS |-> convert(line, f).value]]
    ELSE [ok |-> FALSE, atom |-> None]

\* next(lines) on the iterator that has handed out p lines
next(ls, p) ==
    IF p < Len(ls)
    THEN [ok |-> TRUE, line |-> ls[p + 1], pos |-> p + 1, error |-> None]
    ELSE [ok |-> FALSE, line |-> None, pos |-> p, error |-> "StopIteration"]

\* one item of stop_at_empty_line(lines): the next line, or the end when the
\* iterator is exhausted or the line it hands out is empty when stripped
stop_at_end_only(ls, p) ==
    LET nx == next(ls, p)
    IN  IF ~nx.ok THEN [stop |-> TRUE, line |-> None, pos |-> nx.pos]
        ELSE [stop |-> FALSE, line |-> nx.line, pos |-> nx.pos]

stop_at_empty_line(ls, p) ==
    LET nx == next(ls, p)
    IN  IF ~nx.ok THEN [stop |-> TRUE, line |-> None, pos |-> nx.pos]
        ELSE IF strip(nx.line) = <<>> THEN [stop |-> TRUE, line |-> None, pos |-> nx.pos]
        ELSE [stop |-> FALSE, line |-> nx.line, pos |-> nx.pos]

\* n spaces
Spaces(n) == [p \in 1..n |-> " "]

\* "    1SOL     OW    1   1.000   2.000   3.000\n"
AtomLine1 ==
    Spaces(4) \o <<"1">> \o <<"S", "O", "L">> \o Spaces(2) \o Spaces(3) \o <<"O", "W">>
    \o Spaces(4) \o <<"1">> \o Spaces(3) \o <<"1", ".", "0", "0", "0">>
    \o Spaces(3) \o <<"2", ".", "0", "0", "0">> \o Spaces(3) \o <<"3", ".", "0", "0", "0">>
    \o <<"\n">>

\* "   12ION     NA   20  -0.500   0.250    .125\n"
AtomLine2 ==
    Spaces(3) \o <<"1", "2">> \o <<"I", "O", "N">> \o Spaces(2) \o Spaces(3) \o <<"N", "A">>
    \o Spaces(3) \o <<"2", "0">> \o Spaces(2) \o <<"-", "0", ".", "5", "0", "0">>
    \o Spaces(3) \o <<"0", ".", "2", "5", "0">> \o Spaces(4) \o <<".", "1", "2", "5">>
    \o <<"\n">>

\* "   1.86206   1.86206   1.86206\n": a box description
BoxLine ==
    Spaces(3) \o <<"1", ".", "8", "6", "2", "0", "6">>
    \o Spaces(3) \o <<"1", ".", "8", "6", "2", "0", "6">>
    \o Spaces(3) \o <<"1", ".", "8", "6", "2", "0", "6">> \o <<"\n">>

\* "    2\n": an atom count; as an atom line its numeric columns are missing
CountLine == Spaces(4) \o <<"2">> \o <<"\n">>

\* " \n": empty when stripped
BlankLine == <<" ", "\n">>

LineSet == {AtomLine1, AtomLine2, BoxLine, CountLine, BlankLine}

InitRead ==
    /\ \E n \in 0..MaxLines : lines \in [1..n -> LineSet]
    /\ pos = 0 /\ title = None /\ gro_atoms = <<>> /\ prev_line = None
    /\ box = None /\ rd_pc = "title" /\ rd_error = None
    /\ idleReplace /\ rn = renumber_frame /\ idleStream /\ idleReorder

\* title = next(lines)
ReadTitle ==
    /\ rd_pc = "title"
    /\ LET nx == next(lines, pos)
       IN  IF nx.ok
           THEN title' = nx.line /\ pos' = nx.pos /\ rd_pc' = "count"
                /\ rd_error' = rd_error
           ELSE title' = title /\ pos' = nx.pos /\ rd_pc' = "raised"
                /\ rd_error' = nx.error
    /\ UNCHANGED <<lines, gro_atoms, prev_line, box, replaceVars, rn, stream, ro>>

\* next(lines): the number of atoms, not kept
ReadCount ==
    /\ rd_pc = "count"
    /\ LET nx == next(lines, pos)
       IN  IF nx.ok
           THEN pos' = nx.pos /\ rd_pc' = "first" /\ rd_error' = rd_error
           ELSE pos' = nx.pos /\ rd_pc' = "raised" /\ rd_error' = nx.error
    /\ UNCHANGED <<lines, title, gro_atoms, prev_line, box, replaceVars, rn, stream,
                   ro>>

\* atoms = []; prev_line = next(lines)
ReadFirst ==
    /\ rd_pc = "first"
    /\ LET nx == next(lines, pos)
       IN  IF nx.ok
           THEN prev_line' = nx.line /\ pos' = nx.pos /\ rd_pc' = "loop"
                /\ rd_error' = rd_error
           ELSE prev_line' = prev_line /\ pos' = nx.pos /\ rd_pc' = "raised"
                /\ rd_error' = nx.error
    /\ gro_atoms' = <<>>
    /\ UNCHANGED <<lines, title, box, replaceVars, rn, stream, ro>>

\* one turn of "for line in stop_at_empty_line(lines)": the previous line is
\* decoded and appended, or FormatError is raised
ReadLoop ==
    /\ rd_pc = "loop"
    /\ LET item == stop_at_empty_line(lines, pos)
           d == decode(prev_line)
       IN  /\ ~item.stop
           /\ pos' = item.pos
           /\ IF d.ok
              THEN /\ gro_atoms' = Append(gro_atoms, d.atom)
                   /\ prev_line' = item.line
                   /\ rd_pc' = "loop" /\ rd_error' = rd_error
              ELSE /\ gro_atoms' = gro_atoms /\ prev_line' = prev_line
                   /\ rd_pc' = "raised" /\ rd_error' = "FormatError"
    /\ UNCHANGED <<lines, title, box, replaceVars, rn, stream, ro>>

\* the loop ends: box = prev_line; return (title, atoms, box)
ReadReturn ==
    /\ rd_pc = "loop"
    /\ LET item == stop_at_empty_line(lines, pos)
       IN  /\ item.stop
           /\ pos' = item.pos
    /\ box' = prev_line
    /\ rd_pc' = "returned"
    /\ UNCHANGED <<lines, title, gro_atoms, prev_line, rd_error, replaceVars, rn,
                   stream, ro>>

NextRead == ReadTitle \/ ReadCount \/ ReadFirst \/ ReadLoop \/ ReadReturn

SpecRead == InitRead /\ [][NextRead]_vars

(***************************************************************************)
(* What the claims about read_gro speak of, read off the input lines.      *)
(***************************************************************************)
\* the line is empty after trimming
IsBlank(line) == \A p \in DOMAIN line : line[p] \in Whitespace

\* the position (from 1) of the first blank line at or after position from,
\* or one past the last line
FirstBlankFrom(from) ==
    IF \E p \in from..Len(lines) : IsBlank(lines[p])
    THEN CHOOSE p \in from..Len(lines) :
            /\ IsBlank(lines[p])
            /\ \A q \in from..(p - 1) : ~IsBlank(lines[q])
    ELSE Len(lines) + 1

\* the line can be decoded as an atom: its integer and real columns hold
\* numbers
IsNumber(text, pointAllowed) ==
    /\ text # <<>>
    /\ \E p \in DOMAIN text : text[p] \in Digits
    /\ \A p \in DOMAIN text :
         \/ text[p] \in Digits
         \/ p = 1 /\ text[p] \in {"+", "-"}
         \/ pointAllowed /\ text[p] = "."
    /\ Cardinality({ p \in DOMAIN text : text[p] = "." }) <= 1

Column(line, first, last) ==
    LET cols == { p \in (first + 1)..last : p <= Len(line) /\ line[p] \notin Whitespace }
    IN  IF cols = {} THEN <<>>
        ELSE LET lo == CHOOSE p \in cols : \A q \in cols : p <= q
                 hi == CHOOSE p \in cols : \A q \in cols : p >= q
             IN  [p \in 1..(hi - lo + 1) |-> line[lo + p - 1]]

IsAtomLine(line) ==
    /\ IsNumber(Column(line, 0, 5), FALSE)
    /\ IsNumber(Column(line, 15, 20), FALSE)
    /\ IsNumber(Column(line, 20, 28), TRUE)
    /\ IsNumber(Column(line, 28, 36), TRUE)
    /\ IsNumber(Column(line, 36, 44), TRUE)

\* read_gro has returned or raised
ReadFinished == rd_pc \in {"returned", "raised"}

\* what read_gro is to do when the atom block ends before position blank:
\* the line before it is the footer, the lines from the third to the one
\* before the footer are the atoms
ReadsUpTo(blank) ==
    /\ rd_pc = "returned" =>
          /\ blank - 1 >= 3
          /\ title = lines[1]
          /\ box = lines[blank - 1]
          /\ Len(gro_atoms) = blank - 4
          /\ \A k \in 1..Len(gro_atoms) : gro_atoms[k] = decode(lines[k + 2]).atom
    /\ rd_pc = "raised" =>
          /\ rd_error = "FormatError"
          /\ \E p \in 3..(blank - 2) : ~IsAtomLine(lines[p])
    /\ (\A p \in 3..(blank - 2) : IsAtomLine(lines[p])) => rd_pc = "returned"

(***************************************************************************)
(* C6: given malformed input (fewer than three lines, or an atom line with *)
(* non-numeric or missing content in a numeric column), read_gro fails     *)
(* with FormatError, and it raises no other kind of error.                 *)
(***************************************************************************)
C6_MalformedGivesFormatError ==
    ReadFinished =>
        /\ (\/ Len(lines) < 3
            \/ \E p \in 3..(FirstBlankFrom(4) - 2) : ~IsAtomLine(lines[p]))
              => (rd_pc = "raised" /\ rd_error = "FormatError")
        /\ rd_pc = "raised" => rd_error = "FormatError"

(***************************************************************************)
(* C7 as stated: for an input of at least three lines, read_gro decodes    *)
(* and returns only lines before the first blank line that follows the     *)
(* count line: the last of them is the footer, verbatim and never decoded, *)
(* the lines between the count line and the footer are the atoms in file   *)
(* order, and neither the declared count nor anything after that blank     *)
(* line has a part in the result.                                          *)
(***************************************************************************)
C7_StopsAtBlankAfterCount ==
    (ReadFinished /\ Len(lines) >= 3) => ReadsUpTo(FirstBlankFrom(3))

(***************************************************************************)
(* C7 amended: the same, with the first blank line that follows the third  *)
(* line: the third line is taken as it is, blank or not.                   *)
(***************************************************************************)
C7_StopsAtBlankAfterThird ==
    (ReadFinished /\ Len(lines) >= 3) => ReadsUpTo(FirstBlankFrom(4))

C7_Witness ==
    /\ rd_pc = "returned"
    /\ lines = <<BoxLine, CountLine, AtomLine2, BoxLine, BlankLine, AtomLine1>>
    /\ Len(gro_atoms) = 1
    /\ gro_atoms[1].resid = 12
    /\ gro_atoms[1].x = [num |-> -5, den |-> 10]
    /\ gro_atoms[1].z = [num |-> 125, den |-> 1000]
    /\ gro_atoms[1].atom_name = <<"N", "A">>
    /\ box = BoxLine

====
